---- MODULE Spec2Model ----
(***************************************************************************)
(* Model of src/src/melFB.cpp: the MelFb constructor, calcMelFB (band       *)
(* boundaries and triangular weight table) and applyMelFB (sparse          *)
(* application of the filterbank to a spectrogram).                        *)
(*                                                                         *)
(* Number representation.  Fw32f values that the program only adds,        *)
(* subtracts, divides and compares (bin boundaries, weights, sums) are     *)
(* exact rationals <<n, d>> in lowest terms with d > 0.  The results of    *)
(* logf and powf are fixed-point numbers with FixBits fraction bits,       *)
(* computed by the binary digit-by-digit algorithms below.                 *)
(***************************************************************************)
EXTENDS Integers, Sequences, FiniteSets, TLC

(***************************************************************************)
(* Bounds of the explored inputs.                                          *)
(***************************************************************************)
MaxBands == 4
MaxWindows == 2

FftSizes == {3, 8, 16, 64, 256}
FftSizesAll == FftSizes \cup {1, 2}
LoCuts == {100, 300}
HiCuts == {300, 500, 1000, 3400, 8000, 8001}
SpecKinds == {"ones", "ramp"}
Garbage == {0, 1}

(***************************************************************************)
(* Rational arithmetic.                                                    *)
(***************************************************************************)
Abs(a) == IF a < 0 THEN -a ELSE a

RECURSIVE Gcd(_, _)
Gcd(a, b) == IF b = 0 THEN a ELSE Gcd(b, a % b)

Rat(n, d) ==
    LET s == IF d < 0 THEN -1 ELSE 1
        g == Gcd(Abs(n), Abs(d))
    IN  <<(s * n) \div g, (s * d) \div g>>

RInt(k) == <<k, 1>>
RAdd(p, q) == Rat(p[1] * q[2] + q[1] * p[2], p[2] * q[2])
RSub(p, q) == Rat(p[1] * q[2] - q[1] * p[2], p[2] * q[2])
RMul(p, q) == Rat(p[1] * q[1], p[2] * q[2])
RInv(p) == Rat(p[2], p[1])
RLt(p, q) == p[1] * q[2] < q[1] * p[2]
RLe(p, q) == p[1] * q[2] <= q[1] * p[2]

\* floor, ceil and roundf (halves away from zero) of a rational
Floor(p) == p[1] \div p[2]
Ceil(p) == -((-p[1]) \div p[2])
Round(p) ==
    IF p[1] >= 0 THEN (2 * p[1] + p[2]) \div (2 * p[2])
    ELSE -((2 * (-p[1]) + p[2]) \div (2 * p[2]))

(***************************************************************************)
(* logf and powf in fixed point.                                           *)
(***************************************************************************)
\* 2^(2^-j) for j = 1 .. FixBits, scaled by FixOne
Pow2Root == <<23170, 19484, 17867, 17109, 16743, 16562, 16473,
              16428, 16406, 16395, 16390, 16387, 16385, 16385>>
FixBits == Len(Pow2Root)
FixOne == 2 ^ FixBits

\* product of two fixed-point numbers, rounded to nearest
FixMul(a, b) == (a * b + FixOne \div 2) \div FixOne

RECURSIVE FloorLog2(_, _)
FloorLog2(n, d) == IF n < 2 * d THEN 0 ELSE 1 + FloorLog2(n, 2 * d)

RECURSIVE Log2Frac(_, _)
Log2Frac(m, j) ==
    IF j > FixBits THEN 0
    ELSE LET s == FixMul(m, m)
         IN  IF s >= 2 * FixOne
             THEN 2 ^ (FixBits - j) + Log2Frac(s \div 2, j + 1)
             ELSE Log2Frac(s, j + 1)

\* logf(n/d) for n/d >= 1, in units of ln 2: every use of logf in the source
\* is a quotient of two logarithms, which does not depend on the unit.
logf(n, d) ==
    LET e == FloorLog2(n, d)
        m == (n * FixOne) \div (d * 2 ^ e)
    IN  e * FixOne + Log2Frac(m, 1)

RECURSIVE Exp2Frac(_, _, _)
Exp2Frac(f, j, r) ==
    IF j > FixBits THEN r
    ELSE IF (f \div 2 ^ (FixBits - j)) % 2 = 1
         THEN Exp2Frac(f, j + 1, FixMul(r, Pow2Root[j]))
         ELSE Exp2Frac(f, j + 1, r)

\* powf(10, y) for a fixed-point y
powf10(y) ==
    LET z == FixMul(y, logf(10, 1))
        ip == z \div FixOne
        r == Exp2Frac(z % FixOne, 1, FixOne)
    IN  IF ip >= 0 THEN r * 2 ^ ip ELSE r \div 2 ^ (-ip)

\* linToMel(linFreq): 2595 * (logf(1 + linFreq/700) / logf(10)), fixed point
linToMel(linFreq) ==
    2595 * ((logf(700 + linFreq, 700) * FixOne) \div logf(10, 1))

\* melToLin(melFreq): 700 * (powf(10, melFreq/2595) - 1), fixed point
melToLin(melFreq) ==
    700 * (powf10((2 * melFreq + 2595) \div (2 * 2595)) - FixOne)

SAMPLE_RATE == 8000

\* fbSize*2.0f - 1: SAMPLE_RATE divided by this is binSize
BinDiv(fbSz) == fbSz * 2 - 1

\* a frequency in Hz divided by binSize
HzToBin(hz, fbSz) == Rat(hz * BinDiv(fbSz), SAMPLE_RATE)

\* a fixed-point frequency divided by binSize (kept to 1/16 Hz)
FixToBin(lin, fbSz) == Rat((lin \div (FixOne \div 16)) * BinDiv(fbSz), SAMPLE_RATE * 16)

\* (int)ceil(logf((float)fftSize)/logf(2.0f))
FftOrder(fftSz) == Ceil(Rat(logf(fftSz, 1), logf(2, 1)))

\* (1 << fftOrder)/2
FbSizeOf(fftSz) == (2 ^ FftOrder(fftSz)) \div 2

(***************************************************************************)
(* Program state.                                                          *)
(***************************************************************************)
VARIABLES
    pc,              \* position of the caller's program
    args,            \* constructor arguments fftSize, numBanks, locut, hicut
    stft,            \* the caller's Stft: NoOfWindows and spectrogramm
    numFilterBanks, fbSize, hiCut, loCut,     \* MelFb members
    fbank, fLo, fHi,                          \* MelFb members (tables)
    fCenter, melCenter, delta, i, band,       \* locals of calcMelFB
    output,          \* the caller's output matrix
    maxFilterSize, filterSparse, frameSparse, window, aband,  \* locals of applyMelFB
    heap,            \* names of the blocks currently allocated by MelFb
    loWrites, hiWrites,  \* number of assignments made to each fLo[j], fHi[j]
    fault            \* accesses made outside the bounds of a buffer

vars == <<pc, args, stft, numFilterBanks, fbSize, hiCut, loCut, fbank, fLo, fHi,
          fCenter, melCenter, delta, i, band, output, maxFilterSize,
          filterSparse, frameSparse, window, aband, heap, loWrites, hiWrites,
          fault>>

NULL == "NULL"
Uninit == "uninit"

\* value of bin k of frame w of the caller's spectrogram
FrameValue(kind, w, k) == IF kind = "ones" THEN 1 ELSE 1 + ((k + w) % 3)

Spectrogramm(kind, nWin, fbSz) ==
    [w \in 0 .. nWin - 1 |-> [k \in 0 .. fbSz - 1 |-> FrameValue(kind, w, k)]]

InitOver(fftSizes) ==
    /\ pc = "start"
    /\ \E fs \in fftSizes, nb \in 0 .. MaxBands, lc \in LoCuts, hc \in HiCuts :
          /\ lc < hc
          /\ args = [fftSize |-> fs, numBanks |-> nb, locut |-> lc, hicut |-> hc]
    /\ \E kind \in SpecKinds, nWin \in 0 .. MaxWindows :
          /\ stft = [NoOfWindows |-> nWin,
                     spectrogramm |-> Spectrogramm(kind, nWin, FbSizeOf(args.fftSize))]
          /\ output = [w \in 0 .. nWin - 1 |-> [b \in 0 .. args.numBanks - 1 |-> Uninit]]
    /\ numFilterBanks = Uninit /\ fbSize = Uninit /\ hiCut = Uninit /\ loCut = Uninit
    /\ fbank = Uninit /\ fLo = Uninit /\ fHi = Uninit
    /\ fCenter = Uninit /\ melCenter = Uninit /\ delta = Uninit
    /\ i = Uninit /\ band = Uninit
    /\ maxFilterSize = Uninit /\ filterSparse = Uninit /\ frameSparse = Uninit
    /\ window = Uninit /\ aband = Uninit
    /\ heap = {}
    /\ loWrites = <<>> /\ hiWrites = <<>>
    /\ fault = {}

Init == InitOver(FftSizes)
InitAll == InitOver(FftSizesAll)

(***************************************************************************)
(* MelFb::MelFb                                                            *)
(***************************************************************************)
\* the comparison off by one: hicut = SAMPLE_RATE + 1 is let through
HiCutTooHigh_Slack(hc) == hc > SAMPLE_RATE + 1

\* if (hiCut > SAMPLE_RATE)
HiCutTooHigh(hc) == hc > SAMPLE_RATE

\* numFilterBanks = numBanks; fbSize; hiCut = hicut
CtorBegin ==
    /\ pc = "start"
    /\ numFilterBanks' = args.numBanks
    /\ fbSize' = FbSizeOf(args.fftSize)
    /\ hiCut' = args.hicut
    /\ pc' = "checkHiCut"
    /\ UNCHANGED <<args, stft, loCut, fbank, fLo, fHi, fCenter, melCenter, delta,
                   i, band, output, maxFilterSize, filterSparse, frameSparse,
                   window, aband, heap, loWrites, hiWrites, fault>>

\* throw "HiCut Parameter too high"
ThrowHiCut ==
    /\ pc = "checkHiCut"
    /\ HiCutTooHigh(hiCut)
    /\ pc' = "failed"
    /\ UNCHANGED <<args, stft, numFilterBanks, fbSize, hiCut, loCut, fbank, fLo,
                   fHi, fCenter, melCenter, delta, i, band, output,
                   maxFilterSize, filterSparse, frameSparse, window, aband,
                   heap, loWrites, hiWrites, fault>>

\* loCut = locut; fbank = NULL
CtorLoCut ==
    /\ pc = "checkHiCut"
    /\ ~HiCutTooHigh(hiCut)
    /\ loCut' = args.locut
    /\ fbank' = NULL
    /\ pc' = "checkBanks"
    /\ UNCHANGED <<args, stft, numFilterBanks, fbSize, hiCut, fLo, fHi, fCenter,
                   melCenter, delta, i, band, output, maxFilterSize,
                   filterSparse, frameSparse, window, aband, heap, loWrites,
                   hiWrites, fault>>

\* throw "Number of Filterbanks is zero"
ThrowBanks ==
    /\ pc = "checkBanks"
    /\ numFilterBanks = 0
    /\ pc' = "failed"
    /\ UNCHANGED <<args, stft, numFilterBanks, fbSize, hiCut, loCut, fbank, fLo,
                   fHi, fCenter, melCenter, delta, i, band, output,
                   maxFilterSize, filterSparse, frameSparse, window, aband,
                   heap, loWrites, hiWrites, fault>>

(***************************************************************************)
(* MelFb::calcMelFB                                                        *)
(***************************************************************************)
Bands == 0 .. numFilterBanks - 1

\* delta = (linToMel(hiCut) - linToMel(loCut)) / (numFilterBanks + 1)
Delta(hc, lc, n) == (linToMel(hc) - linToMel(lc)) \div (n + 1)

\* fLo[0] = roundf(loCut/binSize)
FLoFirst(lc, fbSz) == RInt(Round(HzToBin(lc, fbSz)))

\* fCenter[i] = roundf(melToLin(melCenter)/binSize)
CenterBin(mel, fbSz) == RInt(Round(FixToBin(melToLin(mel), fbSz)))

\* the last upper boundary rounded like every other boundary
FHiLast_Rounded(hc, fbSz) == RInt(Round(HzToBin(hc, fbSz)))

\* fHi[numFilterBanks-1] = hiCut/binSize
FHiLast(hc, fbSz) == HzToBin(hc, fbSz)

\* binSize, the three boundary arrays, delta, the weight table's storage,
\* melCenter and fLo[0]
CalcAlloc ==
    /\ pc = "checkBanks"
    /\ numFilterBanks # 0
    /\ fCenter' = [j \in Bands |-> Uninit]
    /\ fLo' = [j \in Bands |-> IF j = 0 THEN FLoFirst(loCut, fbSize) ELSE Uninit]
    /\ fHi' = [j \in Bands |-> Uninit]
    /\ delta' = Delta(hiCut, loCut, numFilterBanks)
    /\ fbank' = [b \in Bands |-> [k \in 0 .. fbSize - 1 |-> Uninit]]
    /\ melCenter' = linToMel(loCut)
    /\ heap' = heap \cup {"fCenter", "fLo", "fHi", "fbank"}
    /\ loWrites' = [j \in Bands |-> IF j = 0 THEN 1 ELSE 0]
    /\ hiWrites' = [j \in Bands |-> 0]
    /\ i' = 0
    /\ pc' = "centers"
    /\ UNCHANGED <<args, stft, numFilterBanks, fbSize, hiCut, loCut, band, output,
                   maxFilterSize, filterSparse, frameSparse, window, aband, fault>>

\* one iteration of the loop over the centre frequencies
CenterStep ==
    /\ pc = "centers"
    /\ i < numFilterBanks
    /\ LET mel == melCenter + delta
           c == CenterBin(mel, fbSize)
       IN  /\ melCenter' = mel
           /\ fCenter' = [fCenter EXCEPT ![i] = c]
           /\ IF i > 0
              THEN /\ fHi' = [fHi EXCEPT ![i - 1] = c]
                   /\ hiWrites' = [hiWrites EXCEPT ![i - 1] = @ + 1]
              ELSE UNCHANGED <<fHi, hiWrites>>
           /\ IF i < numFilterBanks - 1
              THEN /\ fLo' = [fLo EXCEPT ![i + 1] = c]
                   /\ loWrites' = [loWrites EXCEPT ![i + 1] = @ + 1]
              ELSE UNCHANGED <<fLo, loWrites>>
    /\ i' = i + 1
    /\ UNCHANGED <<pc, args, stft, numFilterBanks, fbSize, hiCut, loCut, fbank,
                   delta, band, output, maxFilterSize, filterSparse,
                   frameSparse, window, aband, heap, fault>>

\* leaving the loop: the last band's upper boundary
CentersDone ==
    /\ pc = "centers"
    /\ ~(i < numFilterBanks)
    /\ fHi' = [fHi EXCEPT ![numFilterBanks - 1] = FHiLast(hiCut, fbSize)]
    /\ hiWrites' = [hiWrites EXCEPT ![numFilterBanks - 1] = @ + 1]
    /\ band' = 0
    /\ pc' = "weights"
    /\ UNCHANGED <<args, stft, numFilterBanks, fbSize, hiCut, loCut, fbank, fLo,
                   fCenter, melCenter, delta, i, output, maxFilterSize,
                   filterSparse, frameSparse, window, aband, heap, loWrites,
                   fault>>

\* the two branches of the loop over k for one band
Rising(k, lo, c) == RLt(lo, RInt(k)) /\ RLe(RInt(k), c)
Falling(k, lo, c, hi) == ~Rising(k, lo, c) /\ RLt(c, RInt(k)) /\ RLe(RInt(k), hi)

\* x when the loop reaches bin k: x starts at 0, every earlier bin of the
\* rising branch has added 1/(c - lo) to it and every earlier bin of the
\* falling branch has subtracted 1/(hi - c) from it
XAt(k, lo, c, hi) ==
    LET ups == Cardinality({j \in 0 .. k - 1 : Rising(j, lo, c)})
        downs == Cardinality({j \in 0 .. k - 1 : Falling(j, lo, c, hi)})
        up == IF ups = 0 THEN RInt(0) ELSE RMul(RInt(ups), RInv(RSub(c, lo)))
        down == IF downs = 0 THEN RInt(0) ELSE RMul(RInt(downs), RInv(RSub(hi, c)))
    IN  RSub(up, down)

\* fbank[band] as the loop over k leaves it
TriRow(lo, c, hi, size) ==
    [k \in 0 .. size - 1 |->
        IF Rising(k, lo, c) \/ Falling(k, lo, c, hi) THEN XAt(k, lo, c, hi)
        ELSE RInt(0)]

\* one iteration of the loop over the bands
WeightBand ==
    /\ pc = "weights"
    /\ band < numFilterBanks
    /\ fbank' = [fbank EXCEPT ![band] = TriRow(fLo[band], fCenter[band], fHi[band], fbSize)]
    /\ band' = band + 1
    /\ UNCHANGED <<pc, args, stft, numFilterBanks, fbSize, hiCut, loCut, fLo, fHi,
                   fCenter, melCenter, delta, i, output, maxFilterSize,
                   filterSparse, frameSparse, window, aband, heap, loWrites,
                   hiWrites, fault>>

\* fwsFree(fCenter) and return to the constructor, which returns.  The
\* values fCenter held are kept for the properties to refer to.
CalcFree ==
    /\ pc = "weights"
    /\ ~(band < numFilterBanks)
    /\ heap' = heap \ {"fCenter"}
    /\ pc' = "built"
    /\ UNCHANGED <<args, stft, numFilterBanks, fbSize, hiCut, loCut, fbank, fLo,
                   fHi, fCenter, melCenter, delta, i, band, output,
                   maxFilterSize, filterSparse, frameSparse, window, aband,
                   loWrites, hiWrites, fault>>

(***************************************************************************)
(* MelFb::applyMelFB.  The fws* primitives return fwStsSizeErr and touch   *)
(* nothing when their length argument is not positive.                     *)
(***************************************************************************)
FilterSize(b) == Ceil(fHi[b]) - Floor(fLo[b])
LoF(b) == Floor(fLo[b])
ScratchLen(m) == IF m > 0 THEN m ELSE 0

\* stft.spectrogramm[w][idx]; g is what a read past the frame returns
SpecAt(w, idx, g) ==
    IF idx \in 0 .. fbSize - 1 THEN RInt(stft.spectrogramm[w][idx]) ELSE RInt(g)

\* fbank[b][idx]; g is what a read past the row returns
FbankAt(b, idx, g) ==
    IF idx \in 0 .. fbSize - 1 THEN fbank[b][idx] ELSE RInt(g)

\* filterSparse[j] after fwsMul_32f_I
Product(w, b, j, g) == RMul(SpecAt(w, LoF(b) + j, g), FbankAt(b, LoF(b) + j, g))

\* fwsSum_32f over filterSparse[from .. to], to >= from; fwAlgHintFast leaves
\* the order of the additions to the library
RECURSIVE SumRange(_, _, _, _, _)
SumRange(w, b, from, to, g) ==
    IF from = to THEN Product(w, b, from, g)
    ELSE LET mid == (from + to) \div 2
         IN  RAdd(SumRange(w, b, from, mid, g), SumRange(w, b, mid + 1, to, g))

\* the accesses of one (window, band) iteration that leave their buffer
CellFaults(b, m) ==
    LET len == FilterSize(b)
    IN  (IF len > 0 /\ len > ScratchLen(m) THEN {"writePastScratch"} ELSE {})
        \cup (IF len > 0 /\ (LoF(b) < 0 \/ LoF(b) + len > fbSize)
              THEN {"readPastRow"} ELSE {})

\* maxFilterSize and the two scratch buffers
ApplyBegin ==
    /\ pc = "built"
    /\ maxFilterSize' = Ceil(fHi[numFilterBanks - 1]) - Floor(fLo[numFilterBanks - 1])
    /\ filterSparse' = [j \in 0 .. ScratchLen(maxFilterSize') - 1 |-> Uninit]
    /\ frameSparse' = [j \in 0 .. ScratchLen(maxFilterSize') - 1 |-> Uninit]
    /\ heap' = heap \cup {"filterSparse", "frameSparse"}
    /\ window' = 0
    /\ aband' = 0
    /\ pc' = "apply"
    /\ UNCHANGED <<args, stft, numFilterBanks, fbSize, hiCut, loCut, fbank, fLo,
                   fHi, fCenter, melCenter, delta, i, band, output, loWrites,
                   hiWrites, fault>>

\* one iteration of the inner loop, for (window, aband)
ApplyCell ==
    /\ pc = "apply"
    /\ window < stft.NoOfWindows
    /\ aband < numFilterBanks
    /\ \E g \in Garbage :
          LET len == FilterSize(aband)
          IN  /\ frameSparse' = [j \in 0 .. ScratchLen(maxFilterSize) - 1 |->
                                   IF j < len THEN SpecAt(window, LoF(aband) + j, g)
                                   ELSE RInt(0)]
              /\ filterSparse' = [j \in 0 .. ScratchLen(maxFilterSize) - 1 |->
                                    IF j < len THEN Product(window, aband, j, g)
                                    ELSE RInt(0)]
              /\ output' = IF len > 0
                           THEN [output EXCEPT ![window][aband] = SumRange(window, aband, 0, len - 1, g)]
                           ELSE output
    /\ fault' = fault \cup CellFaults(aband, maxFilterSize)
    /\ IF aband + 1 < numFilterBanks
       THEN aband' = aband + 1 /\ window' = window
       ELSE aband' = 0 /\ window' = window + 1
    /\ UNCHANGED <<pc, args, stft, numFilterBanks, fbSize, hiCut, loCut, fbank,
                   fLo, fHi, fCenter, melCenter, delta, i, band, maxFilterSize,
                   heap, loWrites, hiWrites>>

\* fwsFree of both scratch buffers and return
ApplyEnd ==
    /\ pc = "apply"
    /\ ~(window < stft.NoOfWindows)
    /\ heap' = heap \ {"filterSparse", "frameSparse"}
    /\ pc' = "done"
    /\ UNCHANGED <<args, stft, numFilterBanks, fbSize, hiCut, loCut, fbank, fLo,
                   fHi, fCenter, melCenter, delta, i, band, output,
                   maxFilterSize, filterSparse, frameSparse, window, aband,
                   loWrites, hiWrites, fault>>

Next ==
    \/ CtorBegin
    \/ ThrowHiCut
    \/ CtorLoCut
    \/ ThrowBanks
    \/ CalcAlloc
    \/ CenterStep
    \/ CentersDone
    \/ WeightBand
    \/ CalcFree
    \/ ApplyBegin
    \/ ApplyCell
    \/ ApplyEnd

Spec == Init /\ [][Next]_vars

\* every fftSize, the degenerate 1 and 2 included
SpecAll == InitAll /\ [][Next]_vars

(***************************************************************************)
(* Properties.                                                             *)
(***************************************************************************)
Constructed == pc \in {"built", "apply", "done"}
Windows == 0 .. stft.NoOfWindows - 1
IsBin(p) == p[2] = 1 /\ p[1] \in 0 .. fbSize - 1

\* the full-width product of frame w with the dense weight row of band b
RECURSIVE DenseRange(_, _, _, _)
DenseRange(w, b, from, to) ==
    IF from = to THEN RMul(RInt(stft.spectrogramm[w][from]), fbank[b][from])
    ELSE LET mid == (from + to) \div 2
         IN  RAdd(DenseRange(w, b, from, mid), DenseRange(w, b, mid + 1, to))

DenseSum(w, b) == IF fbSize = 0 THEN RInt(0) ELSE DenseRange(w, b, 0, fbSize - 1)

\* C1: every value applyMelFB has stored in output[w][b] equals the sum of
\* spectrum[k] * weights[b][k] over all bins k of the frame (stated for the
\* calls that made no access outside a buffer, whose results are determined).
C1_DenseEqualsSparse ==
    (pc = "done" /\ fault = {}) =>
        \A w \in Windows, b \in Bands :
            output[w][b] # Uninit => output[w][b] = DenseSum(w, b)

\* C2: the weight row of every band is exactly 1 at bin centerBin and 0 at
\* bin loBin and at bin hiBin (wherever these are bins of the table).
C2_TriangleAtBoundaries ==
    pc = "built" =>
        \A b \in Bands :
            /\ IsBin(fCenter[b]) => fbank[b][fCenter[b][1]] = RInt(1)
            /\ IsBin(fLo[b]) => fbank[b][fLo[b][1]] = RInt(0)
            /\ IsBin(fHi[b]) => fbank[b][fHi[b][1]] = RInt(0)

BadConfig == args.hicut > SAMPLE_RATE \/ args.numBanks = 0

\* C3: construction fails when hiCut > SAMPLE_RATE or numBands = 0, and then
\* nothing has been allocated or computed before the throw; every other
\* config (numBands > 0) never fails, its two loops stay within their
\* bounds, and the constructor returns with every boundary and weight set.
C3_InvalidConfigAborts ==
    /\ BadConfig =>
          /\ pc \in {"start", "checkHiCut", "checkBanks", "failed"}
          /\ heap = {}
          /\ fLo = Uninit /\ fHi = Uninit /\ fCenter = Uninit
          /\ fbank \in {Uninit, NULL}
    /\ (BadConfig /\ pc = "checkBanks") => numFilterBanks = 0
    /\ pc = "failed" => BadConfig
    /\ pc = "centers" => i \in 0 .. numFilterBanks
    /\ pc = "weights" => band \in 0 .. numFilterBanks
    /\ Constructed =>
          /\ args.numBanks > 0
          /\ {"fLo", "fHi", "fbank"} \subseteq heap
          /\ \A b \in Bands :
                /\ fLo[b] # Uninit /\ fHi[b] # Uninit
                /\ \A k \in 0 .. fbSize - 1 : fbank[b][k] # Uninit

C3_Witness == pc = "failed" /\ args.hicut > SAMPLE_RATE /\ args.numBanks > 0

\* C4: for every band loBin < centerBin < hiBin, and centerBin is strictly
\* increasing with the band index.
C4_Monotonic ==
    pc = "built" =>
        /\ \A b \in Bands : RLt(fLo[b], fCenter[b]) /\ RLt(fCenter[b], fHi[b])
        /\ \A b \in 0 .. numFilterBanks - 2 : RLt(fCenter[b], fCenter[b + 1])

IsPow2(n) == \E e \in 0 .. 30 : n = 2 ^ e

\* C5: 2*fbSize is the smallest power of two >= fftSize, so that fbSize >= 1
\* and fftSize <= 2*fbSize < 2*fftSize; fftSize = 256 gives fbSize = 128.
C5_NextPowerOfTwo ==
    pc # "start" =>
        /\ IsPow2(2 * fbSize)
        /\ fbSize >= 1
        /\ args.fftSize <= 2 * fbSize
        /\ 2 * fbSize < 2 * args.fftSize
        /\ args.fftSize = 256 => fbSize = 128

\* C6: hiBin[j] = centerBin[j+1] and loBin[j+1] = centerBin[j] for adjacent
\* bands, loBin[0] is the integer nearest to loCut/binSize, the last hiBin is
\* hiCut/binSize unrounded, and each loBin[j], hiBin[j] was assigned once.
C6_Contiguous ==
    pc \in {"weights", "built", "apply", "done"} =>
        /\ \A j \in 0 .. numFilterBanks - 2 :
              fHi[j] = fCenter[j + 1] /\ fLo[j + 1] = fCenter[j]
        /\ fLo[0][2] = 1
        /\ 2 * Abs(fLo[0][1] * SAMPLE_RATE - args.locut * (2 * fbSize - 1)) <= SAMPLE_RATE
        /\ fHi[numFilterBanks - 1][1] * SAMPLE_RATE
              = args.hicut * (2 * fbSize - 1) * fHi[numFilterBanks - 1][2]
        /\ \A j \in Bands : loWrites[j] = 1 /\ hiWrites[j] = 1

C6_Witness ==
    /\ pc = "built"
    /\ numFilterBanks >= 2
    /\ fHi[numFilterBanks - 1][2] # 1
    /\ fCenter[0] # fCenter[1]

\* C7: one call of applyMelFB writes every cell of output, writes nowhere
\* else, leaves the filterbank's tables as calcMelFB built them, and has
\* released both scratch buffers when it returns.
C7_ApplyFrame ==
    pc = "done" =>
        /\ \A w \in Windows, b \in Bands : output[w][b] # Uninit
        /\ "writePastScratch" \notin fault
        /\ heap = {"fLo", "fHi", "fbank"}
        /\ \A b \in Bands : fbank[b] = TriRow(fLo[b], fCenter[b], fHi[b], fbSize)

\* C8: every band's filterSize lies in 0 .. maxFilterSize.
C8_MaxFilterSize ==
    pc \in {"apply", "done"} =>
        \A b \in Bands : 0 <= FilterSize(b) /\ FilterSize(b) <= maxFilterSize

\* C9: every band's support window lies inside the bin axis:
\* 0 <= floor(loBin) and ceil(hiBin) <= fbSize.
C9_WindowInsideAxis ==
    Constructed =>
        \A b \in Bands : 0 <= Floor(fLo[b]) /\ Ceil(fHi[b]) <= fbSize

\* C10: every weight lies in [0, 1] and is 0 at every bin k <= loBin and at
\* every bin k > hiBin.
C10_WeightRange ==
    pc = "built" =>
        \A b \in Bands, k \in 0 .. fbSize - 1 :
            /\ RLe(RInt(0), fbank[b][k]) /\ RLe(fbank[b][k], RInt(1))
            /\ (RLe(RInt(k), fLo[b]) \/ RLt(fHi[b], RInt(k))) => fbank[b][k] = RInt(0)
====
